---- MODULE Spec2Model ----
(***************************************************************************)
(* Model of rsbuild-plugin-block-imports (src/index.ts).                   *)
(*                                                                         *)
(* The plugin is created once by pluginBlockImports(options) and then its  *)
(* finishModules callback runs once per build: it scans the module graph   *)
(* for dependency requests starting with a forbidden pattern, prints a     *)
(* report with the location of every import and optionally throws.         *)
(*                                                                         *)
(* JavaScript strings are TLA+ strings; positions are 0-based where the    *)
(* code's are (indexOf, match.index, lastIndex) and 1-based inside the     *)
(* helpers that walk a string.  Characters outside ASCII that the report   *)
(* prints are written with ASCII stand-ins: the box-drawing characters as  *)
(* "+", "-", "|", the cross as "x", the bullet as "*", the arrow as "->"   *)
(* and the escape character of the ANSI codes as "^[".                     *)
(***************************************************************************)
EXTENDS Integers, Sequences, FiniteSets, TLC

VARIABLES
    options,           \* the options object pluginBlockImports was called with
    plugin,            \* "none" | "returned" | "configError": outcome of pluginBlockImports
    resolvedOptions,   \* options with defaults applied (index.ts:364-370)
    forbiddenPatterns, \* Set of patterns, in insertion order (index.ts:373)
    lastIndex,         \* lastIndex of each entry of resolvedOptions.exclude (RegExp state)
    modules,           \* module list handed to the latest finishModules call
    built,             \* TRUE once finishModules has run
    errorMap,          \* ScanFinding of the latest build: Map in insertion order
    errorCount,        \* value printErrorReport returned in the latest build, -1 if not called
    trace,             \* effects of the latest build, in order: console.error and
                       \* console.warn lines, file reads, locator and reporter calls
    thrown             \* message of the Error the latest build threw, NoError if none

vars == <<options, plugin, resolvedOptions, forbiddenPatterns, lastIndex, modules, built,
          errorMap, errorCount, trace, thrown>>

(***************************************************************************)
(* Bounds of the model.                                                    *)
(***************************************************************************)
MaxModules == 2

(***************************************************************************)
(* JavaScript values and string primitives.                                *)
(***************************************************************************)
\* values of the untyped options object, tagged with their typeof
Undefined == [type |-> "undefined"]
Null == [type |-> "null"]
Str(s) == [type |-> "string", value |-> s]
Bool(b) == [type |-> "boolean", value |-> b]
Arr(a) == [type |-> "array", value |-> a]

\* !v
Falsy(v) ==
    \/ v.type \in {"undefined", "null"}
    \/ v.type = "string" /\ v.value = ""
    \/ v.type = "boolean" /\ ~v.value

\* Array.isArray(v)
IsArray(v) == v.type = "array"

\* a ?? b, unwrapped
Coalesce(a, b) == IF a.type \in {"undefined", "null"} THEN b ELSE a.value

NoError == ""

CharAt(s, i) == SubSeq(s, i, i)

\* String.prototype.startsWith
StartsWith(s, p) == Len(p) <= Len(s) /\ SubSeq(s, 1, Len(p)) = p

\* s.substr(i, Len(p)) = p for the 0-based index i
OccursAt(s, p, i) == i + Len(p) <= Len(s) /\ SubSeq(s, i + 1, i + Len(p)) = p

\* the least position of a set of positions, none when the set is empty
FirstOf(positions, none) ==
    IF positions = {} THEN none ELSE CHOOSE i \in positions : \A j \in positions : i <= j

\* String.prototype.indexOf(p, from): 0-based, -1 when absent
IndexOf(s, p, from) == FirstOf({i \in from..Len(s) : OccursAt(s, p, i)}, -1)

\* String.prototype.includes
Includes(s, p) == IndexOf(s, p, 0) >= 0

\* String.prototype.replace(p, "") with a string p: the first occurrence only
RemoveAt(s, p, i) ==
    IF i < 0 THEN s ELSE SubSeq(s, 1, i) \o SubSeq(s, i + Len(p) + 1, Len(s))

RemoveFirst(s, p) == RemoveAt(s, p, IndexOf(s, p, 0))

\* String.prototype.split("\n"): the pieces between the line feeds at the
\* 1-based positions feeds, from the 1-based position start on
RECURSIVE Pieces(_, _, _), PiecesFrom(_, _, _, _)
Pieces(s, feeds, start) ==
    IF \A i \in feeds : i < start THEN <<SubSeq(s, start, Len(s))>>
    ELSE PiecesFrom(s, feeds, start, FirstOf({i \in feeds : i >= start}, 0))

PiecesFrom(s, feeds, start, next) ==
    <<SubSeq(s, start, next - 1)>> \o Pieces(s, feeds, next + 1)

SplitLines(s) == Pieces(s, {i \in 1..Len(s) : CharAt(s, i) = "\n"}, 1)

IsSpace(c) == c \in {" ", "\t", "\r", "\n", "\f"}
IsQuote(c) == c \in {"'", "\""}

\* String.prototype.trim
RECURSIVE TrimStart(_)
TrimStart(s) ==
    IF s # "" /\ IsSpace(CharAt(s, 1)) THEN TrimStart(SubSeq(s, 2, Len(s))) ELSE s

RECURSIVE TrimEnd(_)
TrimEnd(s) ==
    IF s # "" /\ IsSpace(CharAt(s, Len(s))) THEN TrimEnd(SubSeq(s, 1, Len(s) - 1)) ELSE s

Trim(s) == TrimEnd(TrimStart(s))

\* String.prototype.padEnd(n) with spaces
RECURSIVE PadEnd(_, _)
PadEnd(s, n) == IF Len(s) >= n THEN s ELSE PadEnd(s \o " ", n)

\* decimal text of a non-negative integer, as template literals print it
Digit(d) == CharAt("0123456789", d + 1)
RECURSIVE NumberToString(_)
NumberToString(n) ==
    IF n < 10 THEN Digit(n) ELSE NumberToString(n \div 10) \o Digit(n % 10)

(***************************************************************************)
(* The file system the locator reads (fs.readFileSync, index.ts:195) and   *)
(* the working directory (process.cwd(), index.ts:385).                    *)
(***************************************************************************)
cwd == "/app"

PathA == "/app/src/a.tsx"
PathB == "/app/src/b.tsx"
PathGone == "/app/test/gone.tsx"
PathDep == "/app/node_modules/next/dist/image.js"

\* a.tsx: one pattern on three lines, in the three forms
FileA ==
    "import React from 'react';\n" \o
    "\n" \o
    "const i = require(\"next/image\");\n" \o
    "  import( 'next/image/legacy' );\n" \o
    "import Image from 'next/image';"

\* b.tsx: two patterns once each, a line on which two forms of one pattern and
\* a second pattern occur, and a side-effect import that has none of the forms
FileB ==
    "import { t } from 'next-intl';\n" \o
    "import Image from \"next/image\";\n" \o
    "require('next/link'); import(\"next/head\"); export * from 'next/link';\n" \o
    "import 'next/script';\n"

\* the files that exist; PathGone was deleted after the module graph was built
Disk == (PathA :> FileA) @@ (PathB :> FileB) @@ (PathDep :> "module.exports = require('next/image');")

(***************************************************************************)
(* The regular expressions of findImportLocations (index.ts:202-213).      *)
(***************************************************************************)
RegExpSpecials == {".", "*", "+", "?", "^", "$", "{", "}", "(", ")", "|", "[", "]", "\\"}

\* importPattern.replace(/[.*+?^${}()|[\]\\]/g, '\\$&')
RECURSIVE EscapeRegExp(_)
EscapeRegExp(p) ==
    IF p = "" THEN ""
    ELSE (IF CharAt(p, 1) \in RegExpSpecials THEN "\\" ELSE "") \o CharAt(p, 1)
         \o EscapeRegExp(SubSeq(p, 2, Len(p)))

\* The regex fragment esc matched at the 1-based position pos of s: the position
\* after the match, 0 when it does not match.  "\c" is the character c, an
\* unescaped "." is any character, any other character is itself.
RECURSIVE MatchEscaped(_, _, _)
MatchEscaped(s, pos, esc) ==
    IF esc = "" THEN pos
    ELSE IF pos > Len(s) THEN 0
    ELSE IF CharAt(esc, 1) = "\\" /\ Len(esc) >= 2
         THEN IF CharAt(s, pos) = CharAt(esc, 2)
              THEN MatchEscaped(s, pos + 1, SubSeq(esc, 3, Len(esc)))
              ELSE 0
    ELSE IF CharAt(esc, 1) = "." \/ CharAt(s, pos) = CharAt(esc, 1)
         THEN MatchEscaped(s, pos + 1, SubSeq(esc, 2, Len(esc)))
         ELSE 0

\* \s* from the 1-based position pos: the first position not holding white space
SkipSpaces(s, pos) == FirstOf({i \in pos..Len(s) : ~IsSpace(CharAt(s, i))}, Len(s) + 1)

\* (?:/[^'"]*)?['"] at the 1-based position e, 0 when the pattern did not match
SpecifierEnd(s, e) ==
    /\ e > 0
    /\ e <= Len(s)
    /\ \/ IsQuote(CharAt(s, e))
       \/ /\ CharAt(s, e) = "/"
          /\ \E k \in (e + 1)..Len(s) : IsQuote(CharAt(s, k))

\* ['"]${escapedPattern}(?:/[^'"]*)?['"] at the 1-based position pos
QuotedSpecifier(s, pos, esc) ==
    /\ pos <= Len(s)
    /\ IsQuote(CharAt(s, pos))
    /\ SpecifierEnd(s, MatchEscaped(s, pos + 1, esc))

\* a faulty order of the three regexes: require before from
patternsRequireFirst == <<"require", "from", "import">>

\* the array `patterns` of index.ts:209-213, by the keyword each regex starts with
patterns == <<"from", "require", "import">>

\* The 1-based positions of a line at which each regex's keyword occurs.  They
\* do not depend on the import pattern, so they are found once for a line.
KeywordsAt(lineContent, initial) ==
    [from |-> {pos \in initial : OccursAt(lineContent, "from", pos - 1)},
     require |-> {pos \in initial : OccursAt(lineContent, "require", pos - 1)},
     import |-> {pos \in initial : OccursAt(lineContent, "import", pos - 1)}]

KeywordStarts(lineContent) ==
    KeywordsAt(lineContent,
        {pos \in 1..Len(lineContent) : CharAt(lineContent, pos) \in {"f", "r", "i"}})

\* what follows the keyword "from" that starts at pos: \s+['"]...['"]
FromForm(s, pos, esc) ==
    /\ pos + 4 <= Len(s)
    /\ IsSpace(CharAt(s, pos + 4))
    /\ QuotedSpecifier(s, SkipSpaces(s, pos + 4), esc)

\* what follows the keyword "require" or "import" that starts at pos:
\* \s*\(\s*['"]...['"]
CallArgument(s, paren, esc) ==
    /\ paren <= Len(s)
    /\ CharAt(s, paren) = "("
    /\ QuotedSpecifier(s, SkipSpaces(s, paren + 1), esc)

CallForm(keyword, s, pos, esc) == CallArgument(s, SkipSpaces(s, pos + Len(keyword)), esc)

FormAt(form, s, pos, esc) ==
    IF form = "from" THEN FromForm(s, pos, esc) ELSE CallForm(form, s, pos, esc)

\* lineContent.match(regex): match.index (0-based), -1 for null
MatchIndex(lineContent, starts, form, esc) ==
    FirstOf({pos \in starts[form] : FormAt(form, lineContent, pos, esc)}, 0) - 1

(***************************************************************************)
(* Sets and Maps in insertion order, as sequences without repetition.      *)
(***************************************************************************)
Range(seq) == {seq[i] : i \in 1..Len(seq)}

\* Set.prototype.add
SetAdd(seq, x) == IF x \in Range(seq) THEN seq ELSE Append(seq, x)

\* new Set(array)
RECURSIVE NewSet(_)
NewSet(array) ==
    IF array = <<>> THEN <<>>
    ELSE SetAdd(NewSet(SubSeq(array, 1, Len(array) - 1)), array[Len(array)])

\* the effects of one build, in order
Error(text) == [ev |-> "console.error", text |-> text]
Warn(text) == [ev |-> "console.warn", text |-> text]
Read(path) == [ev |-> "readFileSync", path |-> path]

(***************************************************************************)
(* findImportLocations (index.ts:193-241).                                 *)
(***************************************************************************)
\* index.ts:215-226: the for loop over the three regexes, from the k-th on;
\* it stops at the first that matches the line
RECURSIVE RegexLoop(_, _, _, _, _, _), RegexStep(_, _, _, _, _, _, _)
RegexLoop(lineContent, starts, index, importPattern, escapedPattern, k) ==
    IF k > Len(patterns) THEN <<>>
    ELSE RegexStep(lineContent, starts, index, importPattern, escapedPattern, k,
                   MatchIndex(lineContent, starts, patterns[k], escapedPattern))

\* index.ts:216-225: the body of the for loop, matchIndex being match.index or -1
RegexStep(lineContent, starts, index, importPattern, escapedPattern, k, matchIndex) ==
    IF matchIndex >= 0
    THEN <<[importName |-> importPattern,
            line |-> index + 1,
            column |-> matchIndex,
            lineContent |-> Trim(lineContent)]>>
    ELSE RegexLoop(lineContent, starts, index, importPattern, escapedPattern, k + 1)

\* index.ts:200-227: imports.forEach for one line, from the k-th import on
RECURSIVE ImportsLoop(_, _, _, _, _)
ImportsLoop(lineContent, starts, index, imports, k) ==
    IF k > Len(imports) THEN <<>>
    ELSE RegexLoop(lineContent, starts, index, imports[k], EscapeRegExp(imports[k]), 1)
         \o ImportsLoop(lineContent, starts, index, imports, k + 1)

\* index.ts:199-228: lines.forEach, from the 0-based line index on
RECURSIVE LinesLoop(_, _, _)
LinesLoop(lines, index, imports) ==
    IF index >= Len(lines) THEN <<>>
    ELSE ImportsLoop(lines[index + 1], KeywordStarts(lines[index + 1]), index, imports, 1)
         \o LinesLoop(lines, index + 1, imports)

\* a faulty catch block: one degraded occurrence for the file, not one for each
\* requested pattern
DegradedOnce(imports) ==
    <<[importName |-> imports[1], line |-> 0, column |-> 0, lineContent |-> ""]>>

\* index.ts:231-240: the catch block
Degraded(imports) ==
    [i \in 1..Len(imports) |->
        [importName |-> imports[i], line |-> 0, column |-> 0, lineContent |-> ""]]

findImportLocations(filePath, imports) ==
    IF filePath \in DOMAIN Disk
    THEN [errors |-> LinesLoop(SplitLines(Disk[filePath]), 0, imports),
          effects |-> <<Read(filePath)>>]
    ELSE [errors |-> Degraded(imports),
          effects |-> <<Read(filePath),
                        Warn("[plugin-block-imports] Could not read file: " \o filePath)>>]

(***************************************************************************)
(* createColorizer (index.ts:142-160) and ANSI_COLORS (index.ts:101-108).  *)
(***************************************************************************)
ANSI_COLORS ==
    [red |-> "^[[31m", yellow |-> "^[[33m", cyan |-> "^[[36m", gray |-> "^[[90m",
     bold |-> "^[[1m", reset |-> "^[[0m"]

createColorizer(enabled, color, s) ==
    IF ~enabled THEN s ELSE ANSI_COLORS[color] \o s \o ANSI_COLORS.reset

(***************************************************************************)
(* printErrorReport (index.ts:247-312).                                    *)
(***************************************************************************)
HeaderWidth == 59

\* alternativesMap.get(imp): Map.set keeps the last alternative of a pattern
AlternativeOf(forbiddenImports, imp) ==
    IF \A i \in 1..Len(forbiddenImports) : forbiddenImports[i].pattern # imp THEN Undefined
    ELSE Str(forbiddenImports[
                CHOOSE i \in 1..Len(forbiddenImports) :
                    /\ forbiddenImports[i].pattern = imp
                    /\ \A j \in (i + 1)..Len(forbiddenImports) : forbiddenImports[j].pattern # imp
             ].alternative)

\* index.ts:264-271
ReportHeader(resolved) ==
    LET red(s) == createColorizer(resolved.colors, "red", s)
        gray(s) == createColorizer(resolved.colors, "gray", s)
        bold(s) == createColorizer(resolved.colors, "bold", s)
    IN  << Error(""),
           Error(red(bold("  +-------------------------------------------------------------+"))),
           Error(red(bold("  |  " \o PadEnd(resolved.errorHeader, HeaderWidth) \o "|"))),
           Error(red(bold("  +-------------------------------------------------------------+"))),
           Error(""),
           Error(red(bold("  x Forbidden imports detected in source files"))),
           Error(gray("    These imports will not work in the remote environment.")),
           Error("") >>

\* index.ts:279-290: what is printed for one ImportError
ReportError(resolved, relativePath, err) ==
    LET red(s) == createColorizer(resolved.colors, "red", s)
        gray(s) == createColorizer(resolved.colors, "gray", s)
        cyan(s) == createColorizer(resolved.colors, "cyan", s)
        bold(s) == createColorizer(resolved.colors, "bold", s)
        location == IF err.line > 0
                    THEN ":" \o NumberToString(err.line) \o ":" \o NumberToString(err.column)
                    ELSE ""
    IN  << Error(cyan("  " \o relativePath \o location)),
           Error(red("    x Forbidden import: " \o bold(err.importName))) >>
        \o (IF err.lineContent # "" THEN <<Error(gray("    | " \o err.lineContent))>> ELSE <<>>)
        \o << Error("") >>

\* a faulty loop over importErrors: it counts an import name once, when it is
\* added to foundImports, instead of counting every occurrence
RECURSIVE ErrorsLoopPerName(_, _, _, _, _)
ErrorsLoopPerName(resolved, relativePath, importErrors, k, acc) ==
    IF k > Len(importErrors) THEN acc
    ELSE ErrorsLoopPerName(resolved, relativePath, importErrors, k + 1,
            [foundImports |-> SetAdd(acc.foundImports, importErrors[k].importName),
             errorCount |-> IF importErrors[k].importName \in Range(acc.foundImports)
                            THEN acc.errorCount
                            ELSE acc.errorCount + 1,
             effects |-> acc.effects \o ReportError(resolved, relativePath, importErrors[k])])

\* index.ts:278-291: importErrors.forEach, from the k-th error on; acc carries
\* foundImports, errorCount and the effects so far
RECURSIVE ErrorsLoop(_, _, _, _, _)
ErrorsLoop(resolved, relativePath, importErrors, k, acc) ==
    IF k > Len(importErrors) THEN acc
    ELSE ErrorsLoop(resolved, relativePath, importErrors, k + 1,
            [foundImports |-> SetAdd(acc.foundImports, importErrors[k].importName),
             errorCount |-> acc.errorCount + 1,
             effects |-> acc.effects \o ReportError(resolved, relativePath, importErrors[k])])

\* index.ts:274-292: errorMap.forEach, from the k-th entry on
\* index.ts:275-291: one entry of errorMap, located being what the locator
\* returned for it
FileReport(resolved, dir, absolutePath, imports, located, acc) ==
    ErrorsLoop(resolved, RemoveFirst(absolutePath, dir), located.errors, 1,
        [acc EXCEPT !.effects =
            @ \o located.effects
              \o <<[ev |-> "findImportLocations", path |-> absolutePath,
                    imports |-> imports, errors |-> located.errors]>>])

RECURSIVE FilesLoop(_, _, _, _, _)
FilesLoop(map, resolved, dir, k, acc) ==
    IF k > Len(map) THEN acc
    ELSE FilesLoop(map, resolved, dir, k + 1,
            FileReport(resolved, dir, map[k].resource, map[k].imports,
                       findImportLocations(map[k].resource, map[k].imports), acc))

\* index.ts:295-304
ReportAlternatives(resolved, forbiddenImports, foundImports) ==
    LET yellow(s) == createColorizer(resolved.colors, "yellow", s)
        gray(s) == createColorizer(resolved.colors, "gray", s)
        line(imp, alternative) ==
            IF ~Falsy(alternative)
            THEN <<Error(gray("    * " \o imp \o " -> " \o alternative.value))>>
            ELSE <<>>
        RECURSIVE lines(_)
        lines(k) ==
            IF k > Len(foundImports) THEN <<>>
            ELSE line(foundImports[k], AlternativeOf(forbiddenImports, foundImports[k]))
                 \o lines(k + 1)
    IN  IF Len(foundImports) > 0
        THEN <<Error(yellow("  Suggested alternatives:"))>> \o lines(1) \o <<Error("")>>
        ELSE <<>>

\* index.ts:307-309
ReportSummary(resolved, count) ==
    LET red(s) == createColorizer(resolved.colors, "red", s)
        bold(s) == createColorizer(resolved.colors, "bold", s)
        summary == NumberToString(count) \o " error(s) found."
                   \o (IF resolved.failOnError THEN " Build failed." ELSE "")
    IN  << Error(red(bold("  " \o summary))), Error("") >>

\* index.ts:295-311: what follows the loop over errorMap, files being its result
ReportEnd(files, forbiddenImports, resolved) ==
    [errorCount |-> files.errorCount,
     effects |-> <<[ev |-> "printErrorReport"]>>
                 \o files.effects
                 \o ReportAlternatives(resolved, forbiddenImports, files.foundImports)
                 \o ReportSummary(resolved, files.errorCount)]

printErrorReport(map, forbiddenImports, resolved, dir) ==
    ReportEnd(FilesLoop(map, resolved, dir, 1,
                  [foundImports |-> <<>>, errorCount |-> 0, effects |-> ReportHeader(resolved)]),
              forbiddenImports, resolved)

(***************************************************************************)
(* shouldExclude (index.ts:166-183).  An entry of the exclude list is a    *)
(* string or a RegExp; a RegExp is modelled by a literal source and its    *)
(* global and sticky flags, and carries its lastIndex between calls.       *)
(***************************************************************************)
RegExp(source, flags) ==
    [type |-> "regexp", source |-> source,
     global |-> Includes(flags, "g"), sticky |-> Includes(flags, "y")]

\* pattern.test(filePath) with the RegExp's lastIndex li: the result and the
\* lastIndex the call leaves behind
RegExpExec(re, str, start) ==
    IF re.sticky
    THEN (IF OccursAt(str, re.source, start) THEN start ELSE -1)
    ELSE IndexOf(str, re.source, start)

RegExpResult(re, li, found) ==
    [result |-> found >= 0,
     lastIndex |-> IF ~(re.global \/ re.sticky) THEN li
                   ELSE IF found >= 0 THEN found + Len(re.source) ELSE 0]

RegExpTest(re, li, str) ==
    RegExpResult(re, li, RegExpExec(re, str, IF re.global \/ re.sticky THEN li ELSE 0))

\* index.ts:172-182: the loop over excludePatterns, from the k-th entry on
RECURSIVE ExcludeLoop(_, _, _, _), ExcludeTested(_, _, _, _, _)
ExcludeLoop(filePath, excludePatterns, k, li) ==
    IF k > Len(excludePatterns) THEN [excluded |-> FALSE, lastIndex |-> li]
    ELSE IF excludePatterns[k].type = "string"
         THEN IF Includes(filePath, excludePatterns[k].value)
              THEN [excluded |-> TRUE, lastIndex |-> li]
              ELSE ExcludeLoop(filePath, excludePatterns, k + 1, li)
    ELSE ExcludeTested(filePath, excludePatterns, k, li,
                       RegExpTest(excludePatterns[k], li[k], filePath))

\* index.ts:177: t is what pattern.test(filePath) gave for the k-th entry
ExcludeTested(filePath, excludePatterns, k, li, t) ==
    IF t.result THEN [excluded |-> TRUE, lastIndex |-> [li EXCEPT ![k] = t.lastIndex]]
    ELSE ExcludeLoop(filePath, excludePatterns, k + 1, [li EXCEPT ![k] = t.lastIndex])

\* a faulty shouldExclude: the configured list only, without the check of
\* index.ts:168
shouldExcludeListed(filePath, excludePatterns, li) ==
    ExcludeLoop(filePath, excludePatterns, 1, li)

shouldExclude(filePath, excludePatterns, li) ==
    IF Includes(filePath, "node_modules") THEN [excluded |-> TRUE, lastIndex |-> li]
    ELSE ExcludeLoop(filePath, excludePatterns, 1, li)

(***************************************************************************)
(* The scan of finishModules (index.ts:388-411).                           *)
(***************************************************************************)
\* dep.request || dep.userRequest || ''  ("" stands for a missing field too)
RequestOf(dep) ==
    IF dep.request # "" THEN dep.request
    ELSE IF dep.userRequest # "" THEN dep.userRequest
    ELSE ""

\* a faulty match of a request: request === pattern instead of startsWith
MatchedExactly(request, registered) ==
    IF \A k \in 1..Len(registered) : request # registered[k] THEN <<>> ELSE <<request>>

\* index.ts:401-409: the patterns one request adds to the file's set
MatchedPatterns(request, registered) ==
    IF \A k \in 1..Len(registered) : ~StartsWith(request, registered[k]) THEN <<>>
    ELSE <<registered[CHOOSE k \in 1..Len(registered) :
                         /\ StartsWith(request, registered[k])
                         /\ \A j \in 1..(k - 1) : ~StartsWith(request, registered[j])]>>

\* index.ts:403-406: errorMap.get(resource).add(pattern), creating the set
MapAdd(map, resource, pattern) ==
    IF \E i \in 1..Len(map) : map[i].resource = resource
    THEN [i \in 1..Len(map) |->
            IF map[i].resource = resource
            THEN [map[i] EXCEPT !.imports = SetAdd(@, pattern)]
            ELSE map[i]]
    ELSE Append(map, [resource |-> resource, imports |-> <<pattern>>])

\* index.ts:397-410: the loop over one module's dependencies
\* index.ts:402-408: the body of the if, for the patterns that matched
MapAddAll(map, resource, matched) ==
    IF matched = <<>> THEN map ELSE MapAdd(map, resource, matched[1])

RECURSIVE DependenciesLoop(_, _, _, _, _)
DependenciesLoop(resource, dependencies, k, registered, map) ==
    IF k > Len(dependencies) THEN map
    ELSE DependenciesLoop(resource, dependencies, k + 1, registered,
            MapAddAll(map, resource, MatchedPatterns(RequestOf(dependencies[k]), registered)))

\* index.ts:388-411: the loop over the modules; acc carries errorMap and the
\* lastIndex of the exclude list's RegExps
\* index.ts:393-410: one module that has a resource, ex being what
\* shouldExclude returned for it
ModuleStep(module, registered, acc, ex) ==
    IF ex.excluded THEN [acc EXCEPT !.lastIndex = ex.lastIndex]
    ELSE [errorMap |-> DependenciesLoop(module.resource, module.dependencies, 1,
                                        registered, acc.errorMap),
          lastIndex |-> ex.lastIndex]

RECURSIVE ModulesLoop(_, _, _, _, _)
ModulesLoop(mods, k, resolved, registered, acc) ==
    IF k > Len(mods) THEN acc
    ELSE IF mods[k].resource = "" THEN ModulesLoop(mods, k + 1, resolved, registered, acc)
    ELSE ModulesLoop(mods, k + 1, resolved, registered,
            ModuleStep(mods[k], registered, acc,
                       shouldExclude(mods[k].resource, resolved.exclude, acc.lastIndex)))

Scan(mods, resolved, registered, li) ==
    ModulesLoop(mods, 1, resolved, registered, [errorMap |-> <<>>, lastIndex |-> li])

(***************************************************************************)
(* The report and the throw of finishModules (index.ts:413-428).           *)
(***************************************************************************)
\* a faulty guard of the report: the reporter runs after every scan
ReportAlways(map) == TRUE

\* a faulty guard of the throw: failOnError is not consulted
ThrowOnAnyCount(resolved, count) == count > 0

\* index.ts:414
ReportNeeded(map) == Len(map) > 0

\* index.ts:422
ThrowNeeded(resolved, count) == resolved.failOnError /\ count > 0

\* index.ts:423-426
ThrowMessage(count) ==
    "[plugin-block-imports] " \o NumberToString(count)
    \o " forbidden import(s) detected. See the error report above for details."

Throw(message) == [ev |-> "throw", message |-> message]

(***************************************************************************)
(* Inputs: the options a configuration file passes and the module graphs   *)
(* the bundler hands to finishModules.                                     *)
(***************************************************************************)
Rule(pattern, alternative) == [pattern |-> pattern, alternative |-> alternative]

\* index.ts:114-132
NEXTJS_FORBIDDEN_IMPORTS ==
    << Rule("next/link", "<a href=\"...\"> or react-router Link"),
       Rule("next/image", "<img src=\"...\"> with proper sizing"),
       Rule("next/router", "window.location or custom navigation"),
       Rule("next/navigation", "window.location or custom navigation"),
       Rule("next/head", "react-helmet or document.head manipulation"),
       Rule("next/script", "<script> tag or useEffect for dynamic scripts"),
       Rule("next/dynamic", "React.lazy() + Suspense"),
       Rule("next/font", "CSS @font-face or Google Fonts link tag"),
       Rule("next/headers", "Pass headers as props from host application"),
       Rule("next/cookies", "document.cookie or js-cookie library"),
       Rule("next-intl", "react-intl, i18next, or react-i18next"),
       Rule("next-auth", "Pass auth state as props from host application"),
       Rule("next-themes", "Custom theme context or CSS variables"),
       Rule("next-seo", "react-helmet or manual meta tag management"),
       Rule("next-i18next", "i18next + react-i18next") >>

ForbiddenImportsInputs ==
    { Undefined,
      Str("next/image"),
      Arr(<<>>),
      Arr(<<Rule("next/image", "img"), Rule("next-intl", "react-intl")>>),
      Arr(<<Rule("next", "no next at all"), Rule("next/image", "img")>>),
      Arr(<<Rule("next/image", "img"), Rule("next", "no next at all")>>),
      Arr(<<Rule("next/script", "script")>>),
      Arr(NEXTJS_FORBIDDEN_IMPORTS) }

ExcludeInputs ==
    { Undefined,
      Arr(<<Str("test/")>>),
      Arr(<<RegExp("test", "")>>),
      Arr(<<RegExp("test", "g")>>),
      Arr(<<RegExp("/app/test", "y")>>),
      Arr(<<>>) }

Options(forbiddenImports, exclude, failOnError, errorHeader, colors) ==
    [forbiddenImports |-> forbiddenImports, exclude |-> exclude,
     failOnError |-> failOnError, errorHeader |-> errorHeader, colors |-> colors]

\* every forbiddenImports value with and without failOnError, the exclude
\* lists, and a plain report with a header of its own
OptionsInputs ==
    { Options(f, Undefined, fail, Undefined, Undefined) :
        f \in ForbiddenImportsInputs, fail \in {Undefined, Bool(FALSE)} }
    \cup
    { Options(Arr(<<Rule("next/image", "img"), Rule("next-intl", "react-intl")>>),
              ex, Bool(TRUE), Undefined, Undefined) :
        ex \in ExcludeInputs }
    \cup
    { Options(Arr(<<Rule("next/image", "img"), Rule("next-intl", "react-intl")>>),
              Undefined, fail, Str("REMOTE BUILD ERROR"), Bool(FALSE)) :
        fail \in {Bool(TRUE), Bool(FALSE)} }

Dep(request) == [request |-> request, userRequest |-> request]

\* the modules of the graph, in the order the bundler iterates them
ModuleGraph ==
    << [resource |-> PathGone,
        dependencies |-> <<[request |-> "", userRequest |-> "next/image"], Dep("next-intl")>>],
       [resource |-> PathA,
        dependencies |-> <<Dep("react"), Dep("next/image"), Dep("next/image/legacy")>>],
       [resource |-> PathB,
        dependencies |-> <<Dep("next-intl"), Dep("next/image"), Dep("next/link"),
                           Dep("next/head"), Dep("next/link"), Dep("next/script")>>],
       [resource |-> PathDep, dependencies |-> <<Dep("next/image")>>],
       [resource |-> "", dependencies |-> <<Dep("next/image")>>] >>

RECURSIVE Pick(_)
Pick(indices) ==
    IF indices = {} THEN <<>>
    ELSE LET first == CHOOSE i \in indices : \A j \in indices : i <= j
         IN  <<ModuleGraph[first]>> \o Pick(indices \ {first})

\* the module lists of a build: at most MaxModules modules of the graph
ModuleLists ==
    {Pick(indices) : indices \in {s \in SUBSET (1..Len(ModuleGraph)) : Cardinality(s) <= MaxModules}}

(***************************************************************************)
(* The state machine.                                                      *)
(***************************************************************************)
Init ==
    /\ options = Undefined
    /\ plugin = "none"
    /\ resolvedOptions = Undefined
    /\ forbiddenPatterns = <<>>
    /\ lastIndex = <<>>
    /\ modules = <<>>
    /\ built = FALSE
    /\ errorMap = <<>>
    /\ errorCount = -1
    /\ trace = <<>>
    /\ thrown = NoError

\* a faulty validation: an empty array is rejected too
InvalidOrEmpty(opts) ==
    \/ Falsy(opts.forbiddenImports)
    \/ ~IsArray(opts.forbiddenImports)
    \/ opts.forbiddenImports.value = <<>>

\* index.ts:359: the validation of the required option
InvalidOptions(opts) ==
    Falsy(opts.forbiddenImports) \/ ~IsArray(opts.forbiddenImports)

\* index.ts:357-436: validation, defaults, the pattern set
pluginBlockImports(opts) ==
    /\ plugin = "none"
    /\ options' = opts
    /\ IF InvalidOptions(opts)
       THEN /\ plugin' = "configError"
            /\ thrown' = "[plugin-block-imports] forbiddenImports option is required and must be an array"
            /\ UNCHANGED <<resolvedOptions, forbiddenPatterns, lastIndex>>
       ELSE /\ plugin' = "returned"
            /\ resolvedOptions' =
                  [forbiddenImports |-> opts.forbiddenImports.value,
                   exclude |-> Coalesce(opts.exclude, <<>>),
                   failOnError |-> Coalesce(opts.failOnError, TRUE),
                   errorHeader |-> Coalesce(opts.errorHeader, "MODULE FEDERATION BUILD ERROR"),
                   colors |-> Coalesce(opts.colors, TRUE)]
            /\ forbiddenPatterns' =
                  NewSet([i \in 1..Len(opts.forbiddenImports.value) |->
                             opts.forbiddenImports.value[i].pattern])
            /\ lastIndex' = [i \in 1..Len(Coalesce(opts.exclude, <<>>)) |-> 0]
            /\ thrown' = NoError
    /\ UNCHANGED <<modules, built, errorMap, errorCount, trace>>

\* index.ts:383-429: what one run of the finishModules callback leaves behind
\* index.ts:415-428: report is what printErrorReport returned
Reported(scan, resolved, report) ==
    [lastIndex |-> scan.lastIndex,
     errorMap |-> scan.errorMap,
     errorCount |-> report.errorCount,
     trace |-> IF ThrowNeeded(resolved, report.errorCount)
               THEN Append(report.effects, Throw(ThrowMessage(report.errorCount)))
               ELSE report.effects,
     thrown |-> IF ThrowNeeded(resolved, report.errorCount)
                THEN ThrowMessage(report.errorCount)
                ELSE NoError]

\* index.ts:413-428: scan is the errorMap (and the RegExp state) the loop left
Finish(scan, resolved) ==
    IF ReportNeeded(scan.errorMap)
    THEN Reported(scan, resolved,
                  printErrorReport(scan.errorMap, resolved.forbiddenImports, resolved, cwd))
    ELSE [lastIndex |-> scan.lastIndex, errorMap |-> scan.errorMap, errorCount |-> -1,
          trace |-> <<>>, thrown |-> NoError]

Build(mods, resolved, registered, li) == Finish(Scan(mods, resolved, registered, li), resolved)

\* one build: the bundler calls the finishModules callback with its modules
finishModules(mods) ==
    /\ plugin = "returned"
    /\ \E build \in {Build(mods, resolvedOptions, forbiddenPatterns, lastIndex)} :
          /\ modules' = mods
          /\ built' = TRUE
          /\ lastIndex' = build.lastIndex
          /\ errorMap' = build.errorMap
          /\ errorCount' = build.errorCount
          /\ trace' = build.trace
          /\ thrown' = build.thrown
    /\ UNCHANGED <<options, plugin, resolvedOptions, forbiddenPatterns>>

Next ==
    \/ \E opts \in OptionsInputs : pluginBlockImports(opts)
    \/ \E mods \in ModuleLists : finishModules(mods)

Spec == Init /\ [][Next]_vars

(***************************************************************************)
(* Properties.  They read the state a build leaves behind: the module list *)
(* it was given, its ScanFinding (errorMap), its effects in order (trace), *)
(* the count the reporter returned and the message of the Error thrown.    *)
(***************************************************************************)
\* the path contains the dependency-directory marker
ContainsMarker(path) ==
    \E i \in 1..(Len(path) - 11) : SubSeq(path, i, i + 11) = "node_modules"

\* an entry of the configured exclude list matches somewhere in the path
Occurs(path, text) ==
    \/ text = ""
    \/ \E i \in 1..(Len(path) - Len(text) + 1) : SubSeq(path, i, i + Len(text) - 1) = text

ListedForExclusion(path) ==
    \E k \in 1..Len(resolvedOptions.exclude) :
        LET entry == resolvedOptions.exclude[k]
        IN  Occurs(path, IF entry.type = "string" THEN entry.value ELSE entry.source)

\* the modules of the latest build that have a resource path and are not excluded
ScannedModules ==
    {m \in Range(modules) :
        m.resource # "" /\ ~ContainsMarker(m.resource) /\ ~ListedForExclusion(m.resource)}

\* the request string of a dependency
Request(dep) == IF dep.request # "" THEN dep.request ELSE dep.userRequest

IsPrefix(p, r) == Len(p) <= Len(r) /\ SubSeq(r, 1, Len(p)) = p

\* the ScanFinding maps the path to a set that contains the pattern
Found(path, pattern) ==
    \E i \in 1..Len(errorMap) :
        errorMap[i].resource = path /\ pattern \in Range(errorMap[i].imports)

\* the k-th registered pattern is the first, in registration order, that the
\* request starts with
FirstPrefix(k, request) ==
    /\ IsPrefix(forbiddenPatterns[k], request)
    /\ \A j \in 1..(k - 1) : ~IsPrefix(forbiddenPatterns[j], request)

\* C1 (as the claim states it): after a build, for every module that has a
\* resource path and is not excluded and every registered pattern p, if a
\* dependency request of the module starts with p, the ScanFinding maps the
\* module's path to a set that contains p.
C1_ScanComplete ==
    built =>
        \A m \in ScannedModules : \A k \in 1..Len(forbiddenPatterns) :
            (\E i \in 1..Len(m.dependencies) :
                IsPrefix(forbiddenPatterns[k], Request(m.dependencies[i])))
            => Found(m.resource, forbiddenPatterns[k])

\* C1 (amended): after a build, for every module that has a resource path and
\* is not excluded, the ScanFinding maps the module's path to a set that
\* contains p exactly when p is, for some dependency request of the module, the
\* first registered pattern (in registration order) that the request starts
\* with; a pattern registered after another prefix of the request is not
\* recorded for that request.
C1_FirstPrefixRecorded ==
    built =>
        \A m \in ScannedModules : \A k \in 1..Len(forbiddenPatterns) :
            Found(m.resource, forbiddenPatterns[k])
            <=> \E i \in 1..Len(m.dependencies) : FirstPrefix(k, Request(m.dependencies[i]))

\* a build with the patterns "next", "next/image" registered in this order and
\* a scanned module requesting "next/image": its set holds "next" only
C1_Witness ==
    /\ built
    /\ forbiddenPatterns = <<"next", "next/image">>
    /\ \E m \in ScannedModules :
          /\ \E i \in 1..Len(m.dependencies) : Request(m.dependencies[i]) = "next/image"
          /\ Found(m.resource, "next")
          /\ ~Found(m.resource, "next/image")

\* C2: after a build, no key of the ScanFinding contains 'node_modules', so no
\* module whose resource path contains it is a key, whatever it requests and
\* whatever the exclude list is.
C2_NodeModulesNeverFound ==
    built =>
        /\ \A i \in 1..Len(errorMap) : ~ContainsMarker(errorMap[i].resource)
        /\ \A m \in Range(modules) :
              ContainsMarker(m.resource) =>
                  \A i \in 1..Len(errorMap) : errorMap[i].resource # m.resource

\* a build, under an empty exclude list, of a module under node_modules that
\* requests a registered pattern, next to a module that is found
C2_Witness ==
    /\ built
    /\ resolvedOptions.exclude = <<>>
    /\ errorMap # <<>>
    /\ \E m \in Range(modules) :
          /\ ContainsMarker(m.resource)
          /\ \E i \in 1..Len(m.dependencies), k \in 1..Len(forbiddenPatterns) :
                IsPrefix(forbiddenPatterns[k], Request(m.dependencies[i]))

\* the lines written to the error stream, in order
Stderr ==
    LET errors == SelectSeq(trace, LAMBDA e : e.ev = "console.error")
    IN  [i \in 1..Len(errors) |-> errors[i].text]

\* the calls of the locator, in order
Located == SelectSeq(trace, LAMBDA e : e.ev = "findImportLocations")

\* decimal digits of a count below 100
Decimal(n) ==
    LET digit(d) == SubSeq("0123456789", d + 1, d + 1)
    IN  IF n < 10 THEN digit(n) ELSE digit(n \div 10) \o digit(n % 10)

\* C3: a build throws if and only if failOnError is true and the reporter
\* returned a count above 0; the throw is the last effect of the build, after
\* the summary line, and its message carries the count; with failOnError false
\* a non-empty ScanFinding is reported, no line says 'Build failed.' and
\* nothing is thrown.
C3_AbortIffFailOnErrorAndCount ==
    built =>
        /\ thrown # NoError <=> (resolvedOptions.failOnError /\ errorCount > 0)
        /\ (\E i \in 1..Len(trace) : trace[i].ev = "throw") <=> thrown # NoError
        /\ thrown # NoError =>
              /\ trace[Len(trace)] = [ev |-> "throw", message |-> thrown]
              /\ \A i \in 1..(Len(trace) - 1) : trace[i].ev # "throw"
              /\ thrown = "[plugin-block-imports] " \o Decimal(errorCount)
                          \o " forbidden import(s) detected. See the error report above for details."
              /\ \E i \in 1..(Len(trace) - 1) :
                    /\ trace[i].ev = "console.error"
                    /\ Occurs(trace[i].text, "  " \o Decimal(errorCount) \o " error(s) found. Build failed.")
        /\ (~resolvedOptions.failOnError /\ errorMap # <<>>) =>
              /\ \E i \in 1..Len(Stderr) :
                    Occurs(Stderr[i], "  " \o Decimal(errorCount) \o " error(s) found.")
              /\ \A i \in 1..Len(Stderr) : ~Occurs(Stderr[i], "Build failed.")
              /\ thrown = NoError

\* a build that threw after a report of at least two occurrences
C3_Witness ==
    /\ built
    /\ resolvedOptions.failOnError
    /\ errorCount >= 2
    /\ thrown # NoError
    /\ trace[Len(trace)].ev = "throw"

\* C4: a build whose ScanFinding is empty has no effect at all: no call of the
\* reporter or the locator, no line on the error stream, no file read, no
\* warning, and nothing thrown, for either value of failOnError.
C4_SilentSuccess ==
    (built /\ errorMap = <<>>) =>
        /\ trace = <<>>
        /\ errorCount = -1
        /\ thrown = NoError

\* a build with failOnError true of modules that request a registered pattern
\* but are all excluded or without a resource
C4_Witness ==
    /\ built
    /\ resolvedOptions.failOnError
    /\ errorMap = <<>>
    /\ trace = <<>>
    /\ \E m \in Range(modules) :
          \E i \in 1..Len(m.dependencies), k \in 1..Len(forbiddenPatterns) :
              IsPrefix(forbiddenPatterns[k], Request(m.dependencies[i]))

\* C5 (as the claim states it): plugin setup returns a plugin only for a
\* non-empty sequence of rules; a missing value, a value that is not a
\* sequence and an empty sequence end in the configuration error.
C5_RejectsEmptySequence ==
    plugin # "none" =>
        (plugin = "returned"
         <=> (options.forbiddenImports.type = "array" /\ options.forbiddenImports.value # <<>>))

\* C5 (amended): plugin setup ends in the configuration error, before a plugin
\* is returned and so before any build, exactly when forbiddenImports is
\* missing or is not a sequence; every sequence is accepted, the empty one
\* too, and a plugin set up with the empty sequence never finds anything.
C5_RejectsMissingOrNonSequence ==
    plugin # "none" =>
        /\ plugin = "configError" <=> options.forbiddenImports.type # "array"
        /\ plugin = "configError" =>
              /\ thrown = "[plugin-block-imports] forbiddenImports option is required and must be an array"
              /\ resolvedOptions = Undefined
              /\ ~built
        /\ plugin = "returned" =>
              /\ resolvedOptions.forbiddenImports = options.forbiddenImports.value
              /\ options.forbiddenImports.value = <<>> => (errorMap = <<>> /\ thrown = NoError)

\* a plugin set up with the empty sequence, after a build of some modules
C5_Witness ==
    /\ plugin = "returned"
    /\ options.forbiddenImports = Arr(<<>>)
    /\ built
    /\ modules # <<>>

\* the number of occurrences the calls of the locator returned, from the k-th on
RECURSIVE OccurrencesFrom(_)
OccurrencesFrom(k) ==
    IF k > Len(Located) THEN 0 ELSE Len(Located[k].errors) + OccurrencesFrom(k + 1)

\* the number of occurrence entries on the error stream
PrintedOccurrences ==
    Cardinality({i \in 1..Len(Stderr) : Occurs(Stderr[i], "x Forbidden import: ")})

\* C6: the count the reporter returns is the number of occurrence entries it
\* printed, which is the number of occurrences the locator returned over all
\* files; it is not the number of files or of patterns of the ScanFinding.
C6_CountIsOccurrences ==
    (built /\ errorMap # <<>>) =>
        /\ errorCount = OccurrencesFrom(1)
        /\ errorCount = PrintedOccurrences

\* one file with one pattern located on three lines: the count is 3
C6_Witness ==
    /\ built
    /\ Len(errorMap) = 1
    /\ Len(errorMap[1].imports) = 1
    /\ Len(Located) = 1
    /\ Len(Located[1].errors) = 3
    /\ errorCount = 3

\* the path as the report prints it: without the working directory
Relative(path) == SubSeq(path, Len(cwd) + 1, Len(path))

\* C7: a call of the locator for a file that cannot be read returns one
\* occurrence for each requested pattern, with line 0, column 0 and empty line
\* text, and warns exactly once; the reporter prints each of them with the bare
\* path, counts each as one error and goes on to every later file of the
\* ScanFinding and to the summary.
C7_UnreadableDegrades ==
    built =>
        /\ \A i \in 1..Len(trace) :
              (trace[i].ev = "findImportLocations" /\ trace[i].path \notin DOMAIN Disk) =>
                  /\ Len(trace[i].errors) = Len(trace[i].imports)
                  /\ \A j \in 1..Len(trace[i].imports) :
                        /\ trace[i].errors[j] =
                              [importName |-> trace[i].imports[j], line |-> 0,
                               column |-> 0, lineContent |-> ""]
                        /\ trace[i + 3 * j - 2].ev = "console.error"
                        /\ trace[i + 3 * j - 2].text \in
                              { "  " \o Relative(trace[i].path),
                                "^[[36m  " \o Relative(trace[i].path) \o "^[[0m" }
                        /\ trace[i + 3 * j - 1].ev = "console.error"
                        /\ Occurs(trace[i + 3 * j - 1].text, "x Forbidden import: ")
                        /\ trace[i + 3 * j] = [ev |-> "console.error", text |-> ""]
                  /\ trace[i - 1] =
                        [ev |-> "console.warn",
                         text |-> "[plugin-block-imports] Could not read file: " \o trace[i].path]
                  /\ trace[i - 2] = [ev |-> "readFileSync", path |-> trace[i].path]
        /\ Cardinality({i \in 1..Len(trace) : trace[i].ev = "console.warn"})
              = Cardinality({i \in 1..Len(Located) : Located[i].path \notin DOMAIN Disk})
        /\ [i \in 1..Len(Located) |-> [resource |-> Located[i].path, imports |-> Located[i].imports]]
              = errorMap
        /\ errorMap # <<>> =>
              /\ errorCount = OccurrencesFrom(1)
              /\ \E i \in 1..Len(Stderr) :
                    Occurs(Stderr[i], "  " \o Decimal(errorCount) \o " error(s) found.")

\* an unreadable file flagged for two patterns, followed by a readable file
\* whose occurrences are located and counted too
C7_Witness ==
    /\ built
    /\ Len(errorMap) = 2
    /\ errorMap[1].resource \notin DOMAIN Disk
    /\ Len(errorMap[1].imports) = 2
    /\ errorMap[2].resource \in DOMAIN Disk
    /\ Len(Located) = 2
    /\ Len(Located[2].errors) > 0
    /\ errorCount = 2 + Len(Located[2].errors)

\* C8 (as the claim states it): for the pattern 'next/image' and the file
\* a.tsx, whose line 5 is exactly  import Image from 'next/image';  the locator
\* returns an occurrence with line 5, column 0 and that line as lineContent, and
\* the report prints it with the suffix ':5:0'.
C8_ColumnZero ==
    built =>
        \A i \in 1..Len(Located) :
            (Located[i].path = PathA /\ "next/image" \in Range(Located[i].imports)) =>
                /\ \E j \in 1..Len(Located[i].errors) :
                      Located[i].errors[j] =
                          [importName |-> "next/image", line |-> 5, column |-> 0,
                           lineContent |-> "import Image from 'next/image';"]
                /\ \E j \in 1..Len(Stderr) :
                      Stderr[j] \in {"  /src/a.tsx:5:0", "^[[36m  /src/a.tsx:5:0^[[0m"}

\* the two findings have the same file paths and the same pattern set per path
SameFinding(a, b) ==
    {<<a[i].resource, Range(a[i].imports)>> : i \in 1..Len(a)}
        = {<<b[i].resource, Range(b[i].imports)>> : i \in 1..Len(b)}

\* C9 (as the claim states it): a build of the module list the previous build
\* of the same plugin was given yields the same ScanFinding, for every
\* configuration, RegExp entries of the exclude list included.
C9_ScanIdempotent ==
    [][(built /\ built' /\ modules' = modules) => SameFinding(errorMap, errorMap')]_vars

\* the column of the first of the forms from, require, import that matches the
\* line for the pattern, -1 when none does
FirstFormColumn(lineContent, importPattern) ==
    LET column(form) ==
            MatchIndex(lineContent, KeywordStarts(lineContent), form, EscapeRegExp(importPattern))
    IN  IF column("from") >= 0 THEN column("from")
        ELSE IF column("require") >= 0 THEN column("require")
        ELSE column("import")

\* C10: for a readable file the locator returns, for each line and each
\* requested pattern, one occurrence when one of the three forms matches the
\* line and none otherwise, never two; its column is where the first matching
\* form in the order from, require, import matches; its lineContent is the
\* line trimmed; the occurrences are in non-decreasing order of line.
C10_OnePerLineAndPattern ==
    built =>
        \A i \in 1..Len(Located) :
            Located[i].path \in DOMAIN Disk =>
                LET lines == SplitLines(Disk[Located[i].path])
                    errors == Located[i].errors
                IN  /\ \A a, b \in 1..Len(errors) :
                          /\ a < b => errors[a].line <= errors[b].line
                          /\ (a # b /\ errors[a].line = errors[b].line)
                                => errors[a].importName # errors[b].importName
                    /\ \A a \in 1..Len(errors) :
                          /\ errors[a].importName \in Range(Located[i].imports)
                          /\ errors[a].line \in 1..Len(lines)
                          /\ errors[a].column >= 0
                          /\ errors[a].column =
                                FirstFormColumn(lines[errors[a].line], errors[a].importName)
                          /\ errors[a].lineContent = Trim(lines[errors[a].line])
                    /\ \A n \in 1..Len(lines) : \A p \in Range(Located[i].imports) :
                          FirstFormColumn(lines[n], p) >= 0
                              => \E a \in 1..Len(errors) :
                                    errors[a].line = n /\ errors[a].importName = p

\* line 3 of b.tsx holds next/link in the require form at column 0 and in the
\* from form at column 52, and next/head in the import form: one occurrence for
\* each pattern, the from form supplying the column of the first
C10_Witness ==
    /\ built
    /\ \E i \in 1..Len(Located) :
          /\ Located[i].path = PathB
          /\ \E a, b \in 1..Len(Located[i].errors) :
                /\ Located[i].errors[a].importName = "next/link"
                /\ Located[i].errors[a].line = 3
                /\ Located[i].errors[a].column = 52
                /\ Located[i].errors[b].importName = "next/head"
                /\ Located[i].errors[b].line = 3
                /\ Located[i].errors[b].column = 22
          /\ Cardinality({a \in 1..Len(Located[i].errors) : Located[i].errors[a].line = 3}) = 2

\* C11 (as the claim states it): with failOnError true, a build whose
\* ScanFinding is not empty ends by throwing, and a build whose summary line
\* says 'Build failed.' throws, whatever the flagged files contain.
C11_DetectionImpliesFailure ==
    built =>
        /\ (resolvedOptions.failOnError /\ errorMap # <<>>) => thrown # NoError
        /\ (\E i \in 1..Len(Stderr) : Occurs(Stderr[i], "Build failed.")) => thrown # NoError

====
